---- MODULE Spec2Model ----
(***************************************************************************)
(* PayLap Fitness relay server (src/server.js): the persistent connection  *)
(* to the relay, the relayBusy command gate of triggerRelay and the        *)
(* auto-lock timer, as a state machine.                                    *)
(*                                                                         *)
(* Node runs one callback at a time, so every action below is one          *)
(* callback from its start to its next await (or its end): a request       *)
(* handler up to `await device.set/get`, the continuation after the        *)
(* device's reply, a timer callback, a device event handler.  The tuyapi   *)
(* device is the environment: each outstanding command may be answered or  *)
(* rejected at any time, and connection events arrive at any time.         *)
(***************************************************************************)
EXTENDS Integers, FiniteSets, Sequences, TLC

\* ---------------------------------------------------------------- bounds
\* Request handlers suspended at an await at the same time.
MaxInFlight == 2
\* Auto-lock timer handles that exist at the same time.
MaxTimers == 2
\* Connect attempts in progress plus reconnect timers scheduled.
MaxLoops == 2

\* ------------------------------------------------------------- constants
DOOR_UNLOCK_DURATION == 3000
HTTP_OK == 200
HTTP_UNAVAILABLE == 503
\* autoLockTimer = null
NoTimer == 0

TimerIds == 1..MaxTimers
Actions == {"unlock", "lock", "status"}
\* The device identities (device_id, local_key, local_ip) a configuration can name.
Identities == {"relayA", "relayB"}

VARIABLES
    isConnected,    \* let isConnected
    dropped,        \* the connection has dropped since the last successful handshake
    relayBusy,      \* let relayBusy
    autoLockTimer,  \* let autoLockTimer: a timer handle or NoTimer
    timers,         \* handles of the setTimeout timers that are scheduled and not yet fired or cleared
    pending,        \* per action, the triggerRelay calls suspended at `await device.set/get`
    autoPending,    \* handles of the fired auto-lock callbacks suspended at `await device.set`
    door,           \* the relay's dps 1 as the last successful device.set left it
    open,           \* handles armed by a successful unlock with no later lock or auto-lock completion
    response,       \* the last HTTP response sent by /unlock, /lock or /status
    connecting,     \* connectToRelay calls suspended at `await device.find/connect`
    retries,        \* scheduled setTimeout(connectToRelay, ...) timers (5000 ms, or 1000 ms after PUT /config)
    config,         \* let config: the identity (device_id, local_key, local_ip) it names
    identity,       \* device.device: the identity the session is bound to
    attempted,      \* a connectToRelay call has started since device.device was last assigned
    configPending   \* PUT /config handlers suspended at `await device.disconnect()`

gate == <<relayBusy, autoLockTimer, timers>>
session == <<pending, autoPending>>
binding == <<config, identity, configPending>>
vars == <<isConnected, dropped, relayBusy, autoLockTimer, timers, pending, autoPending,
          door, open, response, connecting, retries, config, identity, attempted,
          configPending>>

\* ------------------------------------------------------------ helpers
InFlight == pending["unlock"] + pending["lock"] + pending["status"] + Cardinality(autoPending)

Loops == connecting + retries

\* clearTimeout(h): a null, fired or already cleared handle is a no-op.
clearTimeout(h) == timers \ {h}

\* Handles something still refers to; a new setTimeout returns another one.
UsedTimers == timers \cup autoPending \cup open \cup ({autoLockTimer} \cap TimerIds)

NewTimer == CHOOSE t \in TimerIds \ UsedTimers : \A u \in TimerIds \ UsedTimers : t <= u

\* The model admits a request that reaches the device only within the bounds.
Admit(action) ==
    /\ InFlight < MaxInFlight
    /\ action = "unlock" => Cardinality(UsedTimers) + pending["unlock"] < MaxTimers

\* Faulty variant of OfflineCheck: the offline guard is missing.
OfflineCheckOmitted == FALSE

\* if (!isConnected) throw new Error('Relay is offline. ...')
OfflineCheck == ~isConnected

\* Faulty variant of BusyCheck: the busy guard is missing.
BusyCheckOmitted(action) == FALSE

\* if (relayBusy) throw new Error('Relay is busy processing another request.')
BusyCheck(action) == relayBusy

\* Faulty variant of ErrorResponse: the unlock and lock handlers swallow the
\* error and answer 200.
ErrorResponseSwallowed(action, error) ==
    IF action = "status"
    THEN [req |-> action, code |-> HTTP_OK, success |-> FALSE,
          online |-> isConnected, error |-> error]
    ELSE [req |-> action, code |-> HTTP_OK, success |-> TRUE, state |-> "unknown"]

\* The catch blocks of /unlock and /lock (503) and of /status (200, online flag).
ErrorResponse(action, error) ==
    IF action = "status"
    THEN [req |-> action, code |-> HTTP_OK, success |-> FALSE,
          online |-> isConnected, error |-> error]
    ELSE [req |-> action, code |-> HTTP_UNAVAILABLE, success |-> FALSE, error |-> error]

\* Faulty variant of Rejection: the busy check comes before the offline check.
RejectionBusyFirst(action) ==
    IF BusyCheck(action) THEN "RelayBusy"
    ELSE IF OfflineCheck THEN "RelayOffline"
    ELSE "none"

\* The two throws at the top of triggerRelay, before the try block.
Rejection(action) ==
    IF OfflineCheck THEN "RelayOffline"
    ELSE IF BusyCheck(action) THEN "RelayBusy"
    ELSE "none"

Init ==
    /\ isConnected = FALSE
    /\ dropped = FALSE
    /\ relayBusy = FALSE
    /\ autoLockTimer = NoTimer
    /\ timers = {}
    /\ pending = [a \in Actions |-> 0]
    /\ autoPending = {}
    /\ door = "locked"
    /\ open = {}
    /\ response = [req |-> "none"]
    /\ connecting = 1
    /\ retries = 0
    /\ config = "relayA"
    /\ identity = "relayA"
    /\ attempted = TRUE
    /\ configPending = 0

\* ------------------------------------------------- connection supervisor
\* connectToRelay: device.find() and device.connect() succeed; 'connected' fires.
ConnectResolved ==
    /\ connecting > 0
    /\ connecting' = connecting - 1
    /\ isConnected' = TRUE
    /\ dropped' = FALSE
    /\ UNCHANGED <<binding, attempted, gate, session, door, open, response, retries>>

\* connectToRelay: the catch block schedules a retry.
ConnectRejected ==
    /\ connecting > 0
    /\ connecting' = connecting - 1
    /\ retries' = retries + 1
    /\ UNCHANGED <<binding, attempted, isConnected, dropped, gate, session, door, open, response>>

\* A setTimeout(connectToRelay, 5000) timer fires.
RetryFire ==
    /\ retries > 0
    /\ retries' = retries - 1
    /\ connecting' = connecting + 1
    /\ attempted' = TRUE
    /\ UNCHANGED <<binding, isConnected, dropped, gate, session, door, open, response>>

\* Faulty variant of OnDisconnected: the handler marks the relay offline but
\* schedules no reconnect.
OnDisconnectedNoRetry ==
    /\ isConnected
    /\ Loops < MaxLoops
    /\ isConnected' = FALSE
    /\ dropped' = TRUE
    /\ UNCHANGED <<binding, attempted, gate, session, door, open, response, connecting,
                   retries>>

\* device.on('disconnected')
OnDisconnected ==
    /\ isConnected
    /\ Loops < MaxLoops
    /\ isConnected' = FALSE
    /\ dropped' = TRUE
    /\ retries' = retries + 1
    /\ UNCHANGED <<binding, attempted, gate, session, door, open, response, connecting>>

\* device.on('error')
OnError ==
    /\ ~isConnected => Loops < MaxLoops
    /\ retries' = IF ~isConnected THEN retries + 1 ELSE retries
    /\ UNCHANGED <<binding, attempted, isConnected, dropped, gate, session, door, open, response, connecting>>

\* ------------------------------------------------------------ triggerRelay
\* POST /unlock up to `await device.set({dps: 1, set: true})`, or its rejection.
UnlockRequest ==
    IF Rejection("unlock") # "none"
    THEN /\ response' = ErrorResponse("unlock", Rejection("unlock"))
         /\ UNCHANGED <<binding, attempted, isConnected, dropped, gate, session, door, open, connecting, retries>>
    ELSE /\ Admit("unlock")
         /\ relayBusy' = TRUE
         /\ timers' = clearTimeout(autoLockTimer)
         /\ pending' = [pending EXCEPT !["unlock"] = @ + 1]
         /\ UNCHANGED <<binding, attempted, isConnected, dropped, autoLockTimer, autoPending, door, open, response,
                        connecting, retries>>

\* The unlock's device.set resolved: arm the auto-lock timer and answer.
UnlockSetResolved ==
    /\ pending["unlock"] > 0
    /\ isConnected
    /\ pending' = [pending EXCEPT !["unlock"] = @ - 1]
    /\ door' = "unlocked"
    /\ autoLockTimer' = NewTimer
    /\ timers' = timers \cup {NewTimer}
    /\ open' = open \cup {NewTimer}
    /\ response' = [req |-> "unlock", code |-> HTTP_OK, success |-> TRUE,
                    state |-> "unlocked", duration |-> DOOR_UNLOCK_DURATION]
    /\ UNCHANGED <<binding, attempted, isConnected, dropped, relayBusy, autoPending, connecting, retries>>

\* Faulty variant of CatchError: the catch block rethrows without clearing relayBusy.
CatchErrorKeepsBusy(action) ==
    /\ pending[action] > 0
    /\ pending' = [pending EXCEPT ![action] = @ - 1]
    /\ response' = ErrorResponse(action, "RelayCommandFailed")
    /\ UNCHANGED <<binding, attempted, isConnected, dropped, gate, autoPending, door, connecting, retries>>

\* catch (error) { relayBusy = false; throw error; }
CatchError(action) ==
    /\ pending[action] > 0
    /\ pending' = [pending EXCEPT ![action] = @ - 1]
    /\ relayBusy' = FALSE
    /\ response' = ErrorResponse(action, "RelayCommandFailed")
    /\ UNCHANGED <<binding, attempted, isConnected, dropped, autoLockTimer, timers, autoPending, door, connecting, retries>>

\* The unlock's device.set rejected.
UnlockSetRejected ==
    /\ CatchError("unlock")
    /\ UNCHANGED open

\* POST /lock up to `await device.set({dps: 1, set: false})`, or its rejection.
LockRequest ==
    IF Rejection("lock") # "none"
    THEN /\ response' = ErrorResponse("lock", Rejection("lock"))
         /\ UNCHANGED <<binding, attempted, isConnected, dropped, gate, session, door, open, connecting, retries>>
    ELSE /\ Admit("lock")
         /\ timers' = clearTimeout(autoLockTimer)
         /\ pending' = [pending EXCEPT !["lock"] = @ + 1]
         /\ UNCHANGED <<binding, attempted, isConnected, dropped, relayBusy, autoLockTimer, autoPending, door, open,
                        response, connecting, retries>>

\* The lock's device.set resolved.
LockSetResolved ==
    /\ pending["lock"] > 0
    /\ isConnected
    /\ pending' = [pending EXCEPT !["lock"] = @ - 1]
    /\ door' = "locked"
    /\ relayBusy' = FALSE
    /\ autoLockTimer' = NoTimer
    /\ open' = {}
    /\ response' = [req |-> "lock", code |-> HTTP_OK, success |-> TRUE, state |-> "locked"]
    /\ UNCHANGED <<binding, attempted, isConnected, dropped, timers, autoPending, connecting, retries>>

\* The lock's device.set rejected.
LockSetRejected ==
    /\ CatchError("lock")
    /\ open' = {}

\* GET /status up to `await device.get()`, or its rejection.
StatusRequest ==
    IF Rejection("status") # "none"
    THEN /\ response' = ErrorResponse("status", Rejection("status"))
         /\ UNCHANGED <<binding, attempted, isConnected, dropped, gate, session, door, open, connecting, retries>>
    ELSE /\ Admit("status")
         /\ pending' = [pending EXCEPT !["status"] = @ + 1]
         /\ UNCHANGED <<binding, attempted, isConnected, dropped, gate, autoPending, door, open, response,
                        connecting, retries>>

\* device.get() resolved with the relay's dps.
StatusGetResolved ==
    /\ pending["status"] > 0
    /\ isConnected
    /\ pending' = [pending EXCEPT !["status"] = @ - 1]
    /\ response' = [req |-> "status", code |-> HTTP_OK, success |-> TRUE,
                    state |-> door, online |-> isConnected]
    /\ UNCHANGED <<binding, attempted, isConnected, dropped, gate, autoPending, door, open, connecting, retries>>

\* device.get() rejected.
StatusGetRejected ==
    /\ CatchError("status")
    /\ UNCHANGED open

\* -------------------------------------------------------- auto-lock timer
\* The auto-lock timer t expires: its callback runs to `await device.set`.
AutoLockFire(t) ==
    /\ t \in timers
    /\ timers' = timers \ {t}
    /\ autoPending' = autoPending \cup {t}
    /\ UNCHANGED <<binding, attempted, isConnected, dropped, relayBusy, autoLockTimer, pending, door, open, response,
                   connecting, retries>>

\* Faulty variant of AutoLockFinally: the finally block resets the handle but
\* leaves relayBusy set.
AutoLockFinallyKeepsBusy(t) ==
    /\ t \in autoPending
    /\ autoPending' = autoPending \ {t}
    /\ autoLockTimer' = NoTimer
    /\ open' = open \ {t}
    /\ UNCHANGED <<binding, attempted, isConnected, dropped, relayBusy, timers, pending, response, connecting, retries>>

\* Faulty variant of AutoLockFinally: the finally block clears relayBusy but
\* keeps the handle of the timer that fired.
AutoLockFinallyKeepsHandle(t) ==
    /\ t \in autoPending
    /\ autoPending' = autoPending \ {t}
    /\ relayBusy' = FALSE
    /\ open' = open \ {t}
    /\ UNCHANGED <<binding, attempted, isConnected, dropped, autoLockTimer, timers, pending, response, connecting, retries>>

\* finally { relayBusy = false; autoLockTimer = null; }
AutoLockFinally(t) ==
    /\ t \in autoPending
    /\ autoPending' = autoPending \ {t}
    /\ relayBusy' = FALSE
    /\ autoLockTimer' = NoTimer
    /\ open' = open \ {t}
    /\ UNCHANGED <<binding, attempted, isConnected, dropped, timers, pending, response, connecting, retries>>

\* The auto-lock's device.set resolved.
AutoLockSetResolved(t) ==
    /\ isConnected
    /\ AutoLockFinally(t)
    /\ door' = "locked"

\* Faulty variant of AutoLockSetRejected: the cleanup runs after a successful
\* device.set only, not in a finally block.
AutoLockSetRejectedKeepsBusy(t) ==
    /\ t \in autoPending
    /\ autoPending' = autoPending \ {t}
    /\ open' = open \ {t}
    /\ UNCHANGED <<binding, attempted, isConnected, dropped, gate, pending, door, response, connecting, retries>>

\* The auto-lock's device.set rejected: catch logs, finally cleans up.
AutoLockSetRejected(t) ==
    /\ AutoLockFinally(t)
    /\ UNCHANGED door

\* ------------------------------------------------------------ PUT /config
\* PUT /config naming the identity id, up to `await device.disconnect()`: the
\* body is valid, the config object is updated and written to config.json.
ConfigRequest(id) ==
    /\ InFlight + configPending < MaxInFlight
    /\ config' = id
    /\ configPending' = configPending + 1
    /\ UNCHANGED <<identity, attempted, isConnected, dropped, gate, session, door, open,
                   response, connecting, retries>>

\* Faulty variant of Reinitialize: rebuilding the session also resets the gate
\* and cancels the auto-lock timer.
ReinitializeResetsGate ==
    /\ configPending > 0
    /\ Loops < MaxLoops
    /\ configPending' = configPending - 1
    /\ identity' = config
    /\ attempted' = FALSE
    /\ retries' = retries + 1
    /\ relayBusy' = FALSE
    /\ autoLockTimer' = NoTimer
    /\ timers' = {}
    /\ UNCHANGED <<config, isConnected, dropped, session, door, open, response, connecting>>

\* device.device = {id, key, ip, version}; setTimeout(() => connectToRelay(), 1000);
Reinitialize ==
    /\ configPending > 0
    /\ Loops < MaxLoops
    /\ configPending' = configPending - 1
    /\ identity' = config
    /\ attempted' = FALSE
    /\ retries' = retries + 1
    /\ UNCHANGED <<config, isConnected, dropped, gate, session, door, open, response,
                   connecting>>

\* device.disconnect() returned: the handler reinitializes the device.
ConfigDisconnectResolved ==
    /\ configPending > 0
    /\ Reinitialize

\* Faulty variant of ConfigDisconnectRejected: the disconnect error is not
\* caught, so the handler stops before it reinitializes the device.
ConfigDisconnectRejectedAborts ==
    /\ configPending > 0
    /\ configPending' = configPending - 1
    /\ UNCHANGED <<config, identity, attempted, isConnected, dropped, gate, session, door,
                   open, response, connecting, retries>>

\* device.disconnect() threw: the catch block logs a note and the handler goes on.
ConfigDisconnectRejected ==
    /\ configPending > 0
    /\ Reinitialize

\* The steps of a PUT /config request that changes the device settings.
ConfigUpdate ==
    \/ \E id \in Identities : ConfigRequest(id)
    \/ ConfigDisconnectResolved
    \/ ConfigDisconnectRejected

\* A request handler starts: POST /unlock, POST /lock or GET /status arrives.
Request == UnlockRequest \/ LockRequest \/ StatusRequest

\* Everything else: device replies, device events and timers.
Callback ==
    \/ ConnectResolved
    \/ ConnectRejected
    \/ RetryFire
    \/ OnDisconnected
    \/ OnError
    \/ UnlockSetResolved
    \/ UnlockSetRejected
    \/ LockSetResolved
    \/ LockSetRejected
    \/ StatusGetResolved
    \/ StatusGetRejected
    \/ \E t \in TimerIds : AutoLockFire(t)
    \/ \E t \in TimerIds : AutoLockSetResolved(t)
    \/ \E t \in TimerIds : AutoLockSetRejected(t)

\* The server while its configuration stays as loaded; ConfigQuietNext below
\* adds the PUT /config requests.
Next == Request \/ Callback

Spec == Init /\ [][Next]_vars

\* Timers expire, and the device library answers or times out every command
\* and every connect attempt: Node's event loop runs each of these callbacks.
Fairness ==
    /\ \A t \in TimerIds : WF_vars(AutoLockFire(t))
    /\ \A t \in TimerIds : WF_vars(AutoLockSetResolved(t) \/ AutoLockSetRejected(t))
    /\ WF_vars(UnlockSetResolved \/ UnlockSetRejected)
    /\ WF_vars(LockSetResolved \/ LockSetRejected)
    /\ WF_vars(StatusGetResolved \/ StatusGetRejected)
    /\ WF_vars(ConnectResolved \/ ConnectRejected)
    /\ WF_vars(RetryFire)

FairSpec == Spec /\ Fairness

\* The part of Fairness the gate depends on: some armed auto-lock timer
\* expires, and the device library answers or times out some outstanding
\* auto-lock command and some outstanding unlock command.
GateFairness ==
    /\ WF_vars(\E t \in TimerIds : AutoLockFire(t))
    /\ WF_vars(\E t \in TimerIds : AutoLockSetResolved(t) \/ AutoLockSetRejected(t))
    /\ WF_vars(UnlockSetResolved \/ UnlockSetRejected)

GateFairSpec == Spec /\ GateFairness

\* What the server itself schedules: its own setTimeout timers expire.  Nothing
\* in server.js settles a device.set, device.get, device.find or
\* device.connect promise that the device leaves unanswered.
TimerFairness ==
    /\ \A t \in TimerIds : WF_vars(AutoLockFire(t))
    /\ WF_vars(RetryFire)

TimerFairSpec == Spec /\ TimerFairness

\* No auto-lock is pending: no timer is scheduled and no auto-lock command is
\* outstanding.
Quiet == timers = {} /\ autoPending = {}

\* The server when no request arrives between a successful Unlock and the end
\* of its auto-lock; requests already being handled still complete.
QuietNext == (Quiet /\ Request) \/ Callback

QuietFairSpec == Init /\ [][QuietNext]_vars /\ Fairness

\* PUT /config requests arrive at any time, the other requests as in QuietNext.
ConfigQuietNext == QuietNext \/ ConfigUpdate

ConfigQuietFairSpec == Init /\ [][ConfigQuietNext]_vars /\ Fairness

\* ------------------------------------------------------------------ claims

\* The response is the caller-facing failure `error` of a request `req`.
Failed(r, req, error) == r.req = req /\ ~r.success /\ r.error = error

\* C1: an Unlock request handled while the relay is online and relayBusy is
\* true is answered with RelayBusy; it sends nothing to the device and leaves
\* relayBusy, autoLockTimer and the scheduled timers as they were.
UnlockWhileBusyRejected ==
    [][(UnlockRequest /\ isConnected /\ relayBusy)
        => /\ Failed(response', "unlock", "RelayBusy")
           /\ UNCHANGED <<gate, session>>]_vars

\* C1 witness: an Unlock was just refused as busy while its predecessor's
\* auto-lock timer is armed.
UnlockWhileBusyWitness ==
    /\ Failed(response, "unlock", "RelayBusy")
    /\ isConnected /\ relayBusy /\ autoLockTimer \in timers

\* C2: an Unlock or Lock request handled while isConnected is false fails with
\* RelayOffline, Busy or Idle alike; nothing is sent to the device or queued,
\* and relayBusy, autoLockTimer and the scheduled timers stay as they were.
MutatingWhileOfflineRejected ==
    [][(~isConnected /\ (UnlockRequest \/ LockRequest))
        => /\ \/ Failed(response', "unlock", "RelayOffline")
              \/ Failed(response', "lock", "RelayOffline")
           /\ UNCHANGED <<gate, session>>]_vars

\* C2 witness: a Lock was refused as offline while the gate is Busy and an
\* auto-lock timer is armed.
MutatingWhileOfflineWitness ==
    /\ Failed(response, "lock", "RelayOffline")
    /\ ~isConnected /\ relayBusy /\ autoLockTimer \in timers

\* C3: when no request arrives after a successful Unlock, its auto-lock timer
\* expires, which issues the lock command to the device with no Lock request
\* involved, and relayBusy is false as soon as that command completes,
\* resolved or rejected.
AutoLockFollowsUnlock ==
    /\ \A t \in TimerIds : (t \in timers) ~> (t \in autoPending)
    /\ [][\A t \in TimerIds :
            (t \in autoPending /\ t \notin autoPending') => ~relayBusy']_vars

\* C3 witness: the last answered request is a successful Unlock, no request
\* is outstanding, and the door is locked again with the gate Idle: the
\* auto-lock ran to completion on its own.
AutoLockFollowsUnlockWitness ==
    /\ response.req = "unlock" /\ response.success
    /\ InFlight = 0 /\ timers = {}
    /\ door = "locked" /\ ~relayBusy /\ autoLockTimer = NoTimer

\* C4: a Lock request handled while the relay is online and the auto-lock
\* timer of a successful Unlock is armed is accepted: it cancels that timer
\* (which can then never fire) and sends the lock command to the device.
ManualLockPreemptsAutoLock ==
    [][(LockRequest /\ isConnected /\ autoLockTimer \in timers /\ autoLockTimer \in open)
        => /\ timers' = timers \ {autoLockTimer}
           /\ pending'["lock"] = pending["lock"] + 1]_vars

\* C5: an Unlock request handled while the auto-lock timer of an earlier
\* successful Unlock has not fired (and no Lock has completed since) is
\* answered with RelayBusy.
SecondUnlockRejected ==
    [][(UnlockRequest /\ isConnected /\ (open \cap timers) # {})
        => Failed(response', "unlock", "RelayBusy")]_vars

\* C6: a Status request handled while the relay is online, the gate is Busy
\* and the auto-lock timer is armed is not refused as busy: it queries the
\* device.
StatusAllowedWhileBusy ==
    [][(StatusRequest /\ isConnected /\ relayBusy /\ autoLockTimer \in timers)
        => /\ pending'["status"] = pending["status"] + 1
           /\ response' = response]_vars

\* C7: relayBusy is true exactly when an unlock, a manual lock or an auto-lock
\* command is outstanding at the device or an auto-lock timer is armed.
BusyIffCommandOrTimer ==
    relayBusy <=> \/ pending["unlock"] > 0
                  \/ pending["lock"] > 0
                  \/ autoPending # {}
                  \/ timers # {}

AtMostOneTimerAlive == Cardinality(timers) <= 1

\* C10: at most one command (unlock, manual lock, auto-lock or status query)
\* is outstanding at the device.
AtMostOneCommandInFlight == InFlight <= 1

\* C11: the auto-lock of an earlier Unlock never clears relayBusy after a later
\* Unlock has set it.  A fired timer that is no longer open was closed by a
\* Lock completion, which cleared relayBusy; if relayBusy is true when its
\* lock command completes, an Unlock accepted after that Lock set it.
StaleAutoLockKeepsBusy ==
    [][\A t \in TimerIds :
         (t \in autoPending /\ t \notin autoPending' /\ t \notin open /\ relayBusy)
            => relayBusy']_vars

\* C12: when the lock command of a fired auto-lock timer is rejected, relayBusy
\* is cleared and autoLockTimer is reset, no caller receives the failure (no
\* response is sent), and an Unlock handled next with the relay online is not
\* rejected.
AutoLockFailureReleasesGate ==
    [][\A t \in TimerIds :
         AutoLockSetRejected(t)
            => /\ ~relayBusy'
               /\ autoLockTimer' = NoTimer
               /\ response' = response
               /\ isConnected' => (Rejection("unlock") = "none")']_vars

\* C12 witness: the auto-lock that followed a successful Unlock failed: nothing
\* is outstanding, the door is still unlocked, and the gate is Idle with the
\* timer reference reset.
AutoLockFailureReleasesGateWitness ==
    /\ response.req = "unlock" /\ response.success
    /\ InFlight = 0 /\ timers = {} /\ open = {}
    /\ door = "unlocked" /\ ~relayBusy /\ autoLockTimer = NoTimer

\* C13: when the device rejects the command of an Unlock or a Lock request, the
\* caller receives the failure (503 with the error), relayBusy is false
\* afterwards, and no auto-lock timer is armed by the failed request.
CommandFailurePropagates ==
    [][(UnlockSetRejected \/ LockSetRejected)
        => /\ \/ Failed(response', "unlock", "RelayCommandFailed")
              \/ Failed(response', "lock", "RelayCommandFailed")
           /\ response'.code = HTTP_UNAVAILABLE
           /\ ~relayBusy'
           /\ timers' = timers /\ autoLockTimer' = autoLockTimer]_vars

\* C13 witness: an Unlock accepted on an idle gate with no timer was rejected
\* by the device: the caller got the failure, the gate is Idle, no timer is
\* armed and the door is still locked.
CommandFailurePropagatesWitness ==
    /\ Failed(response, "unlock", "RelayCommandFailed")
    /\ ~relayBusy /\ timers = {} /\ autoLockTimer = NoTimer /\ door = "locked"

\* C14: a Status request handled while isConnected is false is answered with
\* success false, online false and the offline reason; nothing is sent to the
\* device, the gate is untouched, and the server still handles requests.
StatusWhileOfflineAnswered ==
    [][(StatusRequest /\ ~isConnected)
        => /\ Failed(response', "status", "RelayOffline")
           /\ response'.online = FALSE
           /\ response'.code = HTTP_OK
           /\ UNCHANGED <<gate, session>>
           /\ (ENABLED Request)']_vars

\* C14 witness: a Status was answered offline and, after the relay came back,
\* a later request was accepted and is outstanding at the device.
StatusWhileOfflineAnsweredWitness ==
    /\ Failed(response, "status", "RelayOffline") /\ response.online = FALSE
    /\ isConnected /\ pending["unlock"] > 0

\* C15: from a connection drop until a handshake succeeds the relay is offline
\* and exactly one reconnect attempt is in progress or scheduled (one attempt
\* per retry interval, for as long as it takes): the drop schedules a retry, a
\* failed attempt schedules the next, and only a successful attempt ends it.
ReconnectsOncePerInterval ==
    [][/\ OnDisconnected => (dropped' /\ Loops' = Loops + 1)
       /\ (dropped /\ ~dropped') => (isConnected' /\ connecting' = connecting - 1)
       /\ dropped' => (~isConnected' /\ Loops' = 1)]_vars

\* C16 precondition: the last answered request is a successful Unlock whose
\* auto-lock has fired and completed; no unlock is outstanding and no
\* auto-lock is pending.
AfterAutoLock ==
    /\ response.req = "unlock" /\ response.success
    /\ open = {} /\ timers = {} /\ autoPending = {} /\ pending["unlock"] = 0

\* C16: once a successful Unlock's auto-lock has fired and completed, the gate
\* is Idle: a Lock request handled then with the relay online is accepted (its
\* command goes to the device), and when that command resolves the door is
\* locked, relayBusy is false and the caller gets success.
LockAfterAutoLockAccepted ==
    [][/\ (LockRequest /\ isConnected /\ AfterAutoLock)
            => /\ ~relayBusy
               /\ pending'["lock"] = pending["lock"] + 1
               /\ response' = response
       /\ LockSetResolved
            => /\ door' = "locked" /\ ~relayBusy'
               /\ response'.req = "lock" /\ response'.success]_vars

\* C16 witness: after the auto-lock of a successful Unlock completed, a Lock
\* was accepted and is outstanding at the device.
LockAfterAutoLockAcceptedWitness ==
    /\ AfterAutoLock /\ isConnected /\ ~relayBusy
    /\ pending["lock"] = 1 /\ door = "locked" /\ autoLockTimer = NoTimer

\* C17: when the command of an accepted Lock request resolves, relayBusy is
\* false, autoLockTimer is reset and no auto-lock timer is scheduled or able to
\* fire, whatever else was handled while the command was outstanding.
LockLeavesNoTimer ==
    [][LockSetResolved
        => /\ ~relayBusy'
           /\ autoLockTimer' = NoTimer
           /\ timers' = {}]_vars

\* C18: no step of a Status request (its start, its answer, its failure)
\* changes relayBusy, autoLockTimer or the scheduled timers.
StatusLeavesGate ==
    [][(StatusRequest \/ StatusGetResolved \/ StatusGetRejected)
        => UNCHANGED gate]_vars

\* C20: at most one connect attempt is in progress or one reconnect retry is
\* scheduled.
AtMostOneConnectLoop == Loops <= 1

\* C19: from every state in which relayBusy is true, relayBusy eventually
\* becomes false, given that armed timers expire and device commands complete,
\* whatever requests and connection events occur meanwhile.
BusyNeverStuck == relayBusy ~> ~relayBusy

\* C19 witness: after a successful Unlock the connection dropped, the auto-lock
\* fired and its command failed, and the gate is Idle again although the door
\* is still unlocked.
BusyNeverStuckWitness ==
    /\ ~relayBusy /\ ~isConnected /\ dropped
    /\ response.req = "unlock" /\ response.success
    /\ door = "unlocked" /\ open = {} /\ InFlight = 0 /\ timers = {}

\* C21: every failure reported by the device session (a failed connect
\* attempt, an 'error' event, a 'disconnected' event) leaves isConnected false
\* with a reconnect retry scheduled.
DeviceFailureLeavesOffline ==
    [][(ConnectRejected \/ OnError \/ OnDisconnected)
        => (~isConnected' /\ retries' > 0)]_vars

\* C23: whenever an auto-lock timer is scheduled, the door is believed
\* unlocked: the last device.set that succeeded is the unlock.
TimerImpliesDoorUnlocked == timers # {} => door = "unlocked"

\* C24: every Unlock, Lock and Status request and every connect attempt
\* resolves even when the device never answers, and the gate does not stay Busy
\* waiting for a reply: only the server's own timers are assumed to run.
ResolvesWithoutDevice ==
    /\ \A a \in Actions : (pending[a] > 0) ~> (pending[a] = 0)
    /\ (connecting > 0) ~> (connecting = 0)
    /\ relayBusy ~> ~relayBusy

\* C25: whenever the last device.set that succeeded is an unlock, an auto-lock
\* timer is scheduled or a lock command (manual or auto-lock) is outstanding.
DoorNeverLeftUnlocked ==
    door = "unlocked" => (timers # {} \/ autoPending # {} \/ pending["lock"] > 0)

\* C26: no step sends a command to the device while isConnected is false,
\* neither a request handler nor the callback of a fired auto-lock timer.
NoCommandWhileOffline == [][InFlight' > InFlight => isConnected]_vars

\* C27: whenever isConnected is false, a connect attempt is in progress or a
\* reconnect retry is scheduled.
SupervisorNeverGivesUp == ~isConnected => (connecting > 0 \/ retries > 0)

\* C27 witness: the connection dropped while the door was unlocked; with the
\* auto-lock command outstanding, no connect attempt is in progress and the
\* reconnect retry is scheduled.
SupervisorNeverGivesUpWitness ==
    /\ ~isConnected /\ dropped /\ connecting = 0 /\ retries = 1
    /\ door = "unlocked" /\ autoPending # {}

\* C22: a PUT /config that changes the device settings calls
\* device.disconnect(); whether that call returns or throws, the handler binds
\* the device to the identity the config now names and schedules
\* connectToRelay; afterwards a connect attempt with the new binding is
\* eventually started.
ConfigChangeReconnects ==
    /\ [][\A id \in Identities :
            ConfigRequest(id) => (config' = id /\ configPending' = configPending + 1)]_vars
    /\ [][(ConfigDisconnectResolved \/ ConfigDisconnectRejected)
            => /\ identity' = config
               /\ ~attempted'
               /\ retries' = retries + 1]_vars
    /\ ~attempted ~> attempted

\* C22 witness: the configuration was changed to another relay, the update
\* finished, and a connect attempt bound to the new identity is in progress.
ConfigChangeReconnectsWitness ==
    /\ identity = "relayB" /\ config = "relayB" /\ configPending = 0
    /\ attempted /\ connecting > 0 /\ ~isConnected

\* C28: no step of a PUT /config changes relayBusy, autoLockTimer, the
\* scheduled timers or the outstanding commands; an auto-lock timer armed when
\* the device identity changes still fires, and relayBusy is false when its
\* lock command completes.
ConfigLeavesGate ==
    /\ [][ConfigUpdate => UNCHANGED <<gate, session>>]_vars
    /\ \A t \in TimerIds :
          (t \in timers /\ (configPending > 0 \/ ~attempted)) ~> (t \in autoPending)
    /\ [][\A t \in TimerIds :
            (t \in autoPending /\ t \notin autoPending' /\ identity # "relayA")
                => ~relayBusy']_vars

\* C28 witness: the device was rebound to another relay while the gate was
\* Busy with the auto-lock timer armed, and both are as they were.
ConfigLeavesGateWitness ==
    /\ identity = "relayB" /\ ~attempted /\ configPending = 0
    /\ relayBusy /\ autoLockTimer \in timers /\ door = "unlocked"

====
